---- MODULE Spec2Model ----
(***************************************************************************)
(* Model of the article-scraper text core: the two TextProcessor variants  *)
(* (src/text_processor.py, src/processor.py) and the two summarizers       *)
(* (src/text_summarizer.py, src/summarizer.py); and of what surrounds it:  *)
(* the retry loops of the scrapers (src/scraper.py and its variants) and   *)
(* DataStorage (src/storage.py).                                           *)
(*                                                                         *)
(* A text is a sequence of one-character strings.  Every operation of the  *)
(* text core is a pure function of its arguments, so a state of its        *)
(* specifications is "the last call and what it returned"; each action is  *)
(* one public call with its arguments drawn from bounded sets.  SpecInstance*)
(* interleaves calls on one shared TextProcessor, SpecScrape steps through *)
(* scrape and bulk_scrape, SpecStorage through save_article calls.         *)
(*                                                                         *)
(* Numbers: a ratio is an integer number of tenths (3 is 0.3); a score is  *)
(* an exact fraction <<numerator, denominator>> with denominator > 0.      *)
(* For the sentence counts the model reaches (at most 12), Python's float  *)
(* products n*ratio, n*0.2 and n*0.8 compare with an integer exactly as    *)
(* the exact fractions do.                                                 *)
(***************************************************************************)
EXTENDS Integers, Sequences, FiniteSets, TLC

VARIABLES
    op,             \* the last call: which method of which class
    text,           \* its text argument
    ratio,          \* its ratio argument, in tenths
    min_sentences,  \* its min_sentences argument (TextSummarizer)
    word_count,     \* its word_count argument, 0 for None (ArticleSummarizer)
    method,         \* its method argument (ArticleSummarizer)
    nltk_data,      \* whether the nltk corpora were installed during the call
    num_keywords,   \* its num_keywords argument (extract_keywords)
    summary,        \* its summary argument (get_summary_stats)
    result,         \* what the call computed and returned
    stopwords,      \* self.stopwords of a TextProcessor that several callers share
    pending,        \* the call each of these callers has begun, if any
    history,        \* the calls that returned on the shared instance, in order
    scraper,        \* a scraper, and where its scrape or bulk_scrape stands
    storage         \* a DataStorage: its JSON file, CSV file and SQLite table

vars ==
    <<op, text, ratio, min_sentences, word_count, method, nltk_data,
      num_keywords, summary, result, stopwords, pending, history, scraper,
      storage>>

(***************************************************************************)
(* Bounds of the model.                                                    *)
(***************************************************************************)
\* the longest text enumerated character by character
MaxLen == 5
\* the most fragments a document is put together from
MaxFragments == 3
\* the largest min_sentences argument
MaxMinSentences == 3
\* the most words a text is put together from
MaxWords == 3
\* the largest num_keywords argument
MaxKeywords == 2
\* the most calls made on a shared instance
MaxCalls == 3
\* the largest max_retries of a scraper
MaxRetries == 3
\* the most URLs given to bulk_scrape
MaxUrls == 2
\* the most save_article calls made on a storage
MaxSaves == 2

\* min_sentences: int = 3
DefaultMinSentences == 3

(***************************************************************************)
(* Characters.                                                             *)
(***************************************************************************)
Letters == {"a", "b", "c", "d", "m", "n", "p", "s"}
UpperLetters == {"A", "B"}
WhitespaceChars == {" ", "\n", "\t"}
KeptPunctuation == {".", ",", "!", "?", "-"}

str_lower(c) ==
    CASE c = "A" -> "a"
      [] c = "B" -> "b"
      [] OTHER -> c

IsSpace(c) == c \in WhitespaceChars

\* \w of the regular expressions: letters, digits and the underscore
IsWordChar(c) == c \in Letters \cup UpperLetters \cup {"0", "1", "_"}

SetMin(S) == CHOOSE x \in S : \A y \in S : x <= y
SetMax(S) == CHOOSE x \in S : \A y \in S : x >= y

lower(s) == [i \in 1..Len(s) |-> str_lower(s[i])]

\* the least index >= from holding character c, 0 when there is none
FirstIndexOf(s, c, from) ==
    LET J == {j \in from..Len(s) : s[j] = c}
    IN  IF J = {} THEN 0 ELSE SetMin(J)

\* does pat occur in s at index i
MatchesAt(s, pat, i) ==
    /\ i + Len(pat) - 1 <= Len(s)
    /\ \A k \in 1..Len(pat) : s[i + k - 1] = pat[k]

\* re.sub(pat, rep, s) for a literal pattern, from index i on: the leftmost
\* match is replaced and the scan goes on behind it
RECURSIVE SubLiteralFrom(_, _, _, _)
SubLiteralFrom(s, pat, rep, i) ==
    LET M == {j \in i..Len(s) : MatchesAt(s, pat, j)}
    IN  IF M = {} THEN SubSeq(s, i, Len(s))
        ELSE SubSeq(s, i, SetMin(M) - 1) \o rep
             \o SubLiteralFrom(s, pat, rep, SetMin(M) + Len(pat))

SubLiteral(s, pat, rep) == SubLiteralFrom(s, pat, rep, 1)

\* re.sub(r'<[^>]+>', '', s): a tag is '<', one or more characters other
\* than '>', then '>'
StrictTagAt(s, j) == s[j] = "<" /\ FirstIndexOf(s, ">", j + 1) > j + 1

RECURSIVE SubTagStrictFrom(_, _)
SubTagStrictFrom(s, i) ==
    LET M == {j \in i..Len(s) : StrictTagAt(s, j)}
    IN  IF M = {} THEN SubSeq(s, i, Len(s))
        ELSE SubSeq(s, i, SetMin(M) - 1)
             \o SubTagStrictFrom(s, FirstIndexOf(s, ">", SetMin(M) + 1) + 1)

\* re.sub('<.*?>', '', s): a tag is '<', the fewest characters other than a
\* newline, then '>'
LazyTagAt(s, j) ==
    /\ s[j] = "<"
    /\ FirstIndexOf(s, ">", j + 1) > j
    /\ \A k \in (j + 1)..(FirstIndexOf(s, ">", j + 1) - 1) : s[k] # "\n"

RECURSIVE SubTagLazyFrom(_, _)
SubTagLazyFrom(s, i) ==
    LET M == {j \in i..Len(s) : LazyTagAt(s, j)}
    IN  IF M = {} THEN SubSeq(s, i, Len(s))
        ELSE SubSeq(s, i, SetMin(M) - 1)
             \o SubTagLazyFrom(s, FirstIndexOf(s, ">", SetMin(M) + 1) + 1)

\* the entity replacements, in the order and with the patterns of the source
SubEntities(s) ==
    LET s1 == SubLiteral(s, <<"&", "n", "b", "s", "p", ";">>, <<" ">>)
        s2 == SubLiteral(s1, <<"&", "a", "m", "p", ";">>, <<"&">>)
        s3 == SubLiteral(s2, <<"<">>, <<"<">>)
    IN  SubLiteral(s3, <<">">>, <<">">>)

Indices(s) == [i \in 1..Len(s) |-> i]

\* re.sub(r'\s+', ' ', s): every maximal whitespace run becomes one space,
\* which stands where the run began
_normalize_whitespace(s) ==
    LET Stays(i) == ~IsSpace(s[i]) \/ i = 1 \/ ~IsSpace(s[i - 1])
        at == SelectSeq(Indices(s), Stays)
    IN  [k \in 1..Len(at) |-> IF IsSpace(s[at[k]]) THEN " " ELSE s[at[k]]]

\* re.sub(r'[^\w\s.,!?-]', '', s)
IsKept(c) == IsWordChar(c) \/ IsSpace(c) \/ c \in KeptPunctuation

\* a mutant of _remove_special_chars: the markup characters are in the
\* class of characters to keep
_remove_special_chars_keeping_markup(s) ==
    LET IsKeptOrMarkup(c) == IsKept(c) \/ c \in {"<", ">", "&"}
    IN  SelectSeq(s, IsKeptOrMarkup)

_remove_special_chars(s) == SelectSeq(s, IsKept)

\* re.sub(r'\n\s*\n', '\n\n', s): a newline, the longest whitespace run that
\* still ends in a newline
ParagraphEnds(s, i) ==
    IF s[i] = "\n"
    THEN {j \in (i + 1)..Len(s) : s[j] = "\n" /\ \A k \in (i + 1)..j : IsSpace(s[k])}
    ELSE {}

RECURSIVE SubParagraphFrom(_, _)
SubParagraphFrom(s, i) ==
    LET M == {j \in i..Len(s) : ParagraphEnds(s, j) # {}}
    IN  IF M = {} THEN SubSeq(s, i, Len(s))
        ELSE SubSeq(s, i, SetMin(M) - 1) \o <<"\n", "\n">>
             \o SubParagraphFrom(s, SetMax(ParagraphEnds(s, SetMin(M))) + 1)

_normalize_paragraphs(s) == SubParagraphFrom(s, 1)

\* str.strip()
strip(s) ==
    LET J == {j \in 1..Len(s) : ~IsSpace(s[j])}
    IN  IF J = {} THEN <<>> ELSE SubSeq(s, SetMin(J), SetMax(J))

_remove_html(s) == SubEntities(SubTagLazyFrom(s, 1))

\* TextProcessor.clean of src/text_processor.py
text_processor_clean(s) ==
    IF s = <<>> THEN <<>>
    ELSE strip(_remove_special_chars(_normalize_whitespace(
             SubEntities(SubTagStrictFrom(lower(s), 1)))))

\* TextProcessor.clean of src/processor.py
processor_clean(s) ==
    IF s = <<>> THEN <<>>
    ELSE strip(_normalize_paragraphs(_remove_special_chars(
             _normalize_whitespace(_remove_html(lower(s))))))

(***************************************************************************)
(* Splitting and joining.                                                  *)
(***************************************************************************)
\* s.split(c) for a one-character separator: empty pieces are kept
RECURSIVE SplitOnFrom(_, _, _)
SplitOnFrom(s, c, i) ==
    LET j == FirstIndexOf(s, c, i)
    IN  IF j = 0 THEN <<SubSeq(s, i, Len(s))>>
        ELSE <<SubSeq(s, i, j - 1)>> \o SplitOnFrom(s, c, j + 1)

\* s.split(): the maximal runs of non-whitespace characters
split(s) ==
    LET Starts(i) == ~IsSpace(s[i]) /\ (i = 1 \/ IsSpace(s[i - 1]))
        Ends(i) == ~IsSpace(s[i]) /\ (i = Len(s) \/ IsSpace(s[i + 1]))
        b == SelectSeq(Indices(s), Starts)
        e == SelectSeq(Indices(s), Ends)
    IN  [k \in 1..Len(b) |-> SubSeq(s, b[k], e[k])]

\* sep.join(parts)
RECURSIVE JoinRange(_, _, _, _)
JoinRange(sep, parts, lo, hi) ==
    IF lo > hi THEN <<>>
    ELSE IF lo = hi THEN parts[lo]
    ELSE LET mid == (lo + hi) \div 2
         IN  JoinRange(sep, parts, lo, mid) \o sep
             \o JoinRange(sep, parts, mid + 1, hi)

join(sep, parts) == JoinRange(sep, parts, 1, Len(parts))

\* s.replace(c, d) for single characters
replace(s, c, d) == [i \in 1..Len(s) |-> IF s[i] = c THEN d ELSE s[i]]

IsNonBlank(s) == strip(s) # <<>>

StripAll(parts) == [i \in 1..Len(parts) |-> strip(parts[i])]

\* TextProcessor.split_into_sentences of src/text_processor.py
text_processor_split_into_sentences(s) ==
    LET t == replace(replace(s, "!", "."), "?", ".")
    IN  StripAll(SelectSeq(SplitOnFrom(t, ".", 1), IsNonBlank))

EndsSentence(word) ==
    word # <<>> /\ word[Len(word)] \in {".", "!", "?"}

\* the inner loop over the words of one line, from word k on, one sentence
\* at a time: <<current, sentences>> when the line is done
RECURSIVE WordLoop(_, _, _, _)
WordLoop(words, k, current, sentences) ==
    LET E == {j \in k..Len(words) : EndsSentence(words[j])}
    IN  IF E = {} THEN <<current \o SubSeq(words, k, Len(words)), sentences>>
        ELSE WordLoop(words, SetMin(E) + 1, <<>>,
                      Append(sentences,
                             join(<<" ">>, current \o SubSeq(words, k, SetMin(E)))))

\* the outer loop over the lines: <<current, sentences>>
RECURSIVE LineLoop(_, _, _, _)
LineLoop(lines, k, current, sentences) ==
    IF k > Len(lines) THEN <<current, sentences>>
    ELSE LET line == strip(lines[k])
         IN  IF line = <<>>
             THEN IF current # <<>>
                  THEN LineLoop(lines, k + 1, <<>>,
                                Append(sentences, join(<<" ">>, current)))
                  ELSE LineLoop(lines, k + 1, current, sentences)
             ELSE LET r == WordLoop(split(line), 1, current, sentences)
                  IN  LineLoop(lines, k + 1, r[1], r[2])

\* TextProcessor.split_into_sentences of src/processor.py
processor_split_into_sentences(s) ==
    LET r == LineLoop(SplitOnFrom(s, "\n", 1), 1, <<>>, <<>>)
        all == IF r[1] # <<>> THEN Append(r[2], join(<<" ">>, r[1])) ELSE r[2]
    IN  StripAll(SelectSeq(all, IsNonBlank))

(***************************************************************************)
(* Numbers, slices and sorting.                                            *)
(***************************************************************************)
Min(a, b) == IF a <= b THEN a ELSE b
Max(a, b) == IF a >= b THEN a ELSE b

\* Python's round(num / den) for den > 0: to the nearest integer, a tie to
\* the even one
round(num, den) ==
    LET q == num \div den
        r == num % den
    IN  IF 2 * r < den THEN q
        ELSE IF 2 * r > den THEN q + 1
        ELSE IF q % 2 = 0 THEN q ELSE q + 1

\* seq[:k], also for k < 0 and k > len(seq)
Prefix(seq, k) ==
    IF k >= 0 THEN SubSeq(seq, 1, Min(k, Len(seq)))
    ELSE SubSeq(seq, 1, Max(Len(seq) + k, 0))

\* fractions <<numerator, denominator>>, denominator > 0
FracGE(x, y) == x[1] * y[2] >= y[1] * x[2]
FracGT(x, y) == x[1] * y[2] > y[1] * x[2]
FracEQ(x, y) == x[1] * y[2] = y[1] * x[2]

\* a mutant of sorted_by_score_desc: among equal scores the later position
\* comes first (an ascending sort that is then reversed)
RECURSIVE sorted_by_score_desc_reversed_ties(_, _)
sorted_by_score_desc_reversed_ties(scores, n) ==
    IF n = 0 THEN <<>>
    ELSE LET prev == sorted_by_score_desc_reversed_ties(scores, n - 1)
             p == Cardinality({k \in 1..Len(prev) :
                                  FracGT(scores[prev[k] + 1], scores[n])})
         IN  SubSeq(prev, 1, p) \o <<n - 1>> \o SubSeq(prev, p + 1, Len(prev))

\* sorted(enumerate(scores), key=score, reverse=True), as the 0-based
\* positions of the first n sentences: descending score, and Python's sort
\* is stable also with reverse=True, so equal scores keep position order
RECURSIVE sorted_by_score_desc(_, _)
sorted_by_score_desc(scores, n) ==
    IF n = 0 THEN <<>>
    ELSE LET prev == sorted_by_score_desc(scores, n - 1)
             p == Cardinality({k \in 1..Len(prev) :
                                  FracGE(scores[prev[k] + 1], scores[n])})
         IN  SubSeq(prev, 1, p) \o <<n - 1>> \o SubSeq(prev, p + 1, Len(prev))

\* sorted(list of integers)
RECURSIVE SortedPrefix(_, _)
SortedPrefix(seq, n) ==
    IF n = 0 THEN <<>>
    ELSE LET prev == SortedPrefix(seq, n - 1)
             p == Cardinality({k \in 1..Len(prev) : prev[k] <= seq[n]})
         IN  SubSeq(prev, 1, p) \o <<seq[n]>> \o SubSeq(prev, p + 1, Len(prev))

sorted(seq) == SortedPrefix(seq, Len(seq))

\* [sentences[i] for i in indices], indices 0-based
Pick(sentences, indices) == [k \in 1..Len(indices) |-> sentences[indices[k] + 1]]

RECURSIVE SumSeq(_, _)
SumSeq(seq, n) == IF n = 0 THEN 0 ELSE seq[n] + SumSeq(seq, n - 1)

\* Counter(words)[w]
CountOf(words, w) == Cardinality({k \in 1..Len(words) : words[k] = w})

(***************************************************************************)
(* TextSummarizer (src/text_summarizer.py).                                *)
(***************************************************************************)
\* a mutant of TextPositionBoost: the two thresholds taken inclusively
TextPositionBoost_inclusive(i, n) ==
    IF 5 * i <= n THEN 3 ELSE IF 5 * i >= 4 * n THEN 2 ELSE 0

\* the position and length terms of a score, in tenths
TextPositionBoost(i, n) ==
    IF 5 * i < n THEN 3 ELSE IF 5 * i > 4 * n THEN 2 ELSE 0

TextLengthBoost(words) ==
    IF 10 <= words /\ words <= 30 THEN 2 ELSE 0

\* TextSummarizer._score_sentences: score i is
\*   (sum of word_freq over the words) / len(words) * 0.5 + position + length
TextSummarizer_score_sentences(sentences) ==
    LET all_words == split(lower(join(<<" ">>, sentences)))
        n == Len(sentences)
    IN  [k \in 1..n |->
            LET words == split(lower(sentences[k]))
                L == Len(words)
                total == SumSeq([j \in 1..L |-> CountOf(all_words, words[j])], L)
                boost == TextPositionBoost(k - 1, n) + TextLengthBoost(L)
            IN  IF L = 0 THEN <<boost, 10>>
                ELSE <<5 * total + boost * L, 10 * L>>]

\* a mutant of TextSummarizer_num_sentences: the product truncated by int()
\* instead of rounded
TextSummarizer_num_sentences_truncated(n, ratio_tenths, min_count) ==
    Min(Max(min_count, (n * ratio_tenths) \div 10), n)

\* a mutant of TextSummarizer_num_sentences: the ratio taken as the share
\* of sentences to drop
TextSummarizer_num_sentences_dropped(n, ratio_tenths, min_count) ==
    Min(Max(min_count, n - round(n * ratio_tenths, 10)), n)

\* lines 45-49: num_sentences
TextSummarizer_num_sentences(n, ratio_tenths, min_count) ==
    Min(Max(min_count, round(n * ratio_tenths, 10)), n)

\* a mutant of TextSummarizer_selected_indices: the outer sorted() is
\* missing, the positions stay in score order
TextSummarizer_selected_indices_unsorted(scores, k) ==
    Prefix(sorted_by_score_desc(scores, Len(scores)), k)

\* lines 52-58: selected_indices
TextSummarizer_selected_indices(scores, k) ==
    sorted(Prefix(sorted_by_score_desc(scores, Len(scores)), k))

\* a mutant of TextSummarizer_join: the sentences joined by a space alone
TextSummarizer_join_spaces(selected) ==
    LET joined == join(<<" ">>, selected)
    IN  IF joined # <<>> /\ joined[Len(joined)] = "."
        THEN joined ELSE joined \o <<".">>

\* lines 61-63: the summary string
TextSummarizer_join(selected) ==
    LET joined == join(<<".", " ">>, selected)
    IN  IF joined # <<>> /\ joined[Len(joined)] = "."
        THEN joined ELSE joined \o <<".">>

\* the dictionaries of get_text_stats and get_summary_stats; a quotient is
\* an exact fraction
NoStats ==
    [num_sentences |-> 0, num_words |-> 0, avg_sentence_length |-> <<0, 1>>,
     reading_time |-> 0, original_length |-> 0, summary_length |-> 0,
     compression_ratio |-> <<0, 1>>, original_reading_time |-> 0,
     summary_reading_time |-> 0]

NoResult ==
    [cleaned |-> <<>>, sentences |-> <<>>, scores |-> <<>>, num_sentences |-> 0,
     selected_indices |-> <<>>, summary |-> <<>>, raised |-> "",
     fallback |-> FALSE, keywords |-> <<>>, stats |-> NoStats]

\* TextSummarizer.summarize
TextSummarizer_summarize(t, ratio_tenths, min_count) ==
    IF t = <<>> THEN NoResult
    ELSE LET c == text_processor_clean(t)
             s == text_processor_split_into_sentences(c)
         IN  IF s = <<>> THEN [NoResult EXCEPT !.cleaned = c]
             ELSE LET sc == TextSummarizer_score_sentences(s)
                      k == TextSummarizer_num_sentences(Len(s), ratio_tenths,
                                                        min_count)
                      sel == TextSummarizer_selected_indices(sc, k)
                  IN  [NoResult EXCEPT !.cleaned = c, !.sentences = s,
                                       !.scores = sc, !.num_sentences = k,
                                       !.selected_indices = sel,
                                       !.summary = TextSummarizer_join(Pick(s, sel))]

(***************************************************************************)
(* ArticleSummarizer (src/summarizer.py) and what it uses of the           *)
(* TextProcessor of src/processor.py.                                      *)
(***************************************************************************)
isalpha(w) == w # <<>> /\ \A k \in 1..Len(w) : w[k] \in Letters \cup UpperLetters

isalnum(w) ==
    w # <<>> /\ \A k \in 1..Len(w) : w[k] \in Letters \cup UpperLetters \cup {"0", "1"}

\* nltk's English stopwords, those spelled with the letters of the model
NltkStopwords ==
    { <<"a">>, <<"a", "m">>, <<"a", "n">>, <<"a", "n", "d">>, <<"a", "s">>,
      <<"c", "a", "n">>, <<"d">>, <<"m">>, <<"m", "a">>, <<"s">> }

\* nltk.word_tokenize on one whitespace-delimited word: the sentence
\* punctuation at either end of the word becomes tokens of its own
TokenPunctuation == {".", ",", "!", "?"}

TokenizeWord(w) ==
    LET J == {j \in 1..Len(w) : w[j] \notin TokenPunctuation}
    IN  IF J = {} THEN [k \in 1..Len(w) |-> <<w[k]>>]
        ELSE [k \in 1..(SetMin(J) - 1) |-> <<w[k]>>]
             \o <<SubSeq(w, SetMin(J), SetMax(J))>>
             \o [k \in 1..(Len(w) - SetMax(J)) |-> <<w[SetMax(J) + k]>>]

\* the tokens of words lo..hi, by halves so that a long text nests only a
\* few levels deep
RECURSIVE TokenizeRange(_, _, _)
TokenizeRange(words, lo, hi) ==
    IF lo > hi THEN <<>>
    ELSE IF lo = hi THEN TokenizeWord(words[lo])
    ELSE LET mid == (lo + hi) \div 2
         IN  TokenizeRange(words, lo, mid) \o TokenizeRange(words, mid + 1, hi)

word_tokenize(s) == LET words == split(s) IN TokenizeRange(words, 1, Len(words))

\* the distinct elements of a sequence, in order of first occurrence
RECURSIVE DistinctFrom(_, _)
DistinctFrom(seq, n) ==
    IF n = 0 THEN <<>>
    ELSE LET prev == DistinctFrom(seq, n - 1)
         IN  IF \E k \in 1..Len(prev) : prev[k] = seq[n] THEN prev
             ELSE Append(prev, seq[n])

\* a mutant of most_common: among equal counts the word seen last comes
\* first
most_common_reversed_ties(words, n) ==
    LET keys == DistinctFrom(words, Len(words))
        counts == [k \in 1..Len(keys) |-> <<CountOf(words, keys[k]), 1>>]
    IN  Pick(keys, Prefix(sorted_by_score_desc_reversed_ties(counts, Len(keys)),
                          Max(n, 0)))

\* Counter(words).most_common(n): by descending count, equal counts in
\* order of first occurrence; nothing for n <= 0
most_common(words, n) ==
    LET keys == DistinctFrom(words, Len(words))
        counts == [k \in 1..Len(keys) |-> <<CountOf(words, keys[k]), 1>>]
    IN  Pick(keys, Prefix(sorted_by_score_desc(counts, Len(keys)), Max(n, 0)))

\* TextProcessor.extract_keywords of src/processor.py; the stopword set is
\* the one __init__ loaded
processor_extract_keywords(s, num) ==
    LET tokens == word_tokenize(lower(s))
        IsKeyword(w) == isalpha(w) /\ w \notin NltkStopwords
    IN  most_common(SelectSeq(tokens, IsKeyword), num)

\* ArticleSummarizer._calculate_word_freq: the words the Counter counts
ArticleSummarizer_calculate_word_freq(t) ==
    LET IsCounted(w) == isalnum(w) /\ w \notin NltkStopwords
    IN  SelectSeq(split(lower(t)), IsCounted)

\* ArticleSummarizer._score_sentence, counted being the Counter's words
ArticleSummarizer_score_sentence(sentence, counted) ==
    LET words == split(lower(sentence))
        L == Len(words)
        total == SumSeq([j \in 1..L |-> IF isalnum(words[j])
                                         THEN CountOf(counted, words[j]) ELSE 0], L)
    IN  IF L = 0 THEN <<0, 1>> ELSE <<total, L>>

\* ArticleSummarizer._score_sentences, in tenths
ArticleSummarizer_score_sentences(sentences) ==
    LET n == Len(sentences)
    IN  [k \in 1..n |->
            LET words == Len(split(sentences[k]))
                i == k - 1
                length == IF 5 <= words /\ words <= 25 THEN 3 ELSE 0
                position == IF 5 * i < n \/ 5 * i > 4 * n THEN 3 ELSE 0
                keywords == processor_extract_keywords(sentences[k], 10)
            IN  <<length + position + Len(keywords), 10>>]

\* lines 104-111 and 151-158: num_sentences; total_words is the number of
\* words the mean is taken over, word_count = 0 stands for None (both are
\* false in "if word_count")
ArticleSummarizer_num_sentences(n, total_words, ratio_tenths, wc) ==
    IF wc # 0 THEN Min(n, round(wc * n, total_words))
    ELSE Max(1, round(n * ratio_tenths, 10))

\* sentences.index(x): the 0-based position of the first sentence equal to x
IndexOf(sentences, x) == SetMin({k \in 1..Len(sentences) : sentences[k] = x}) - 1

\* lines 114-117 of _gensim_summarize: selected_indices
ArticleSummarizer_gensim_selected_indices(sentences, scores, k) ==
    LET top == Prefix(sorted_by_score_desc(scores, Len(scores)), k)
    IN  sorted([j \in 1..Len(top) |-> IndexOf(sentences, sentences[top[j] + 1])])

\* ArticleSummarizer._select_sentences: selected_indices
ArticleSummarizer_select_sentences(scores, k) ==
    sorted(Prefix(sorted_by_score_desc(scores, Len(scores)), k))

\* ArticleSummarizer._fallback_summarize
ArticleSummarizer_fallback_summarize(c, ratio_tenths) ==
    LET s == processor_split_into_sentences(c)
        k == Max(1, round(Len(s) * ratio_tenths, 10))
        first == Prefix(s, k)
    IN  IF s = <<>> THEN [NoResult EXCEPT !.cleaned = c, !.fallback = TRUE]
        ELSE [NoResult EXCEPT !.cleaned = c, !.sentences = s, !.num_sentences = k,
                              !.selected_indices = [j \in 1..Len(first) |-> j - 1],
                              !.summary = join(<<" ">>, first),
                              !.fallback = TRUE]

\* ArticleSummarizer._gensim_summarize; corpora tells whether the nltk
\* corpora are installed: without them stopwords.words raises LookupError
ArticleSummarizer_gensim_summarize(c, ratio_tenths, wc, corpora) ==
    LET s == processor_split_into_sentences(c)
    IN  IF s = <<>> THEN [NoResult EXCEPT !.cleaned = c]
        ELSE IF ~corpora THEN ArticleSummarizer_fallback_summarize(c, ratio_tenths)
        ELSE LET counted == ArticleSummarizer_calculate_word_freq(c)
                 sc == [k \in 1..Len(s) |->
                           ArticleSummarizer_score_sentence(s[k], counted)]
                 k == ArticleSummarizer_num_sentences(Len(s), Len(split(c)),
                                                      ratio_tenths, wc)
                 sel == ArticleSummarizer_gensim_selected_indices(s, sc, k)
                 summary_ == join(<<" ">>, Pick(s, sel))
             IN  IF summary_ = <<>>
                 THEN ArticleSummarizer_fallback_summarize(c, ratio_tenths)
                 ELSE [NoResult EXCEPT !.cleaned = c, !.sentences = s, !.scores = sc,
                                       !.num_sentences = k, !.selected_indices = sel,
                                       !.summary = summary_]

\* ArticleSummarizer._extractive_summarize; without the nltk corpora
\* nltk.word_tokenize raises LookupError, which summarize catches
ArticleSummarizer_extractive_summarize(c, ratio_tenths, wc, corpora) ==
    LET s == processor_split_into_sentences(c)
    IN  IF s = <<>> THEN [NoResult EXCEPT !.cleaned = c]
        ELSE IF ~corpora THEN ArticleSummarizer_fallback_summarize(c, ratio_tenths)
        ELSE LET sc == ArticleSummarizer_score_sentences(s)
                 total_words == SumSeq([j \in 1..Len(s) |-> Len(split(s[j]))], Len(s))
                 k == ArticleSummarizer_num_sentences(Len(s), total_words,
                                                      ratio_tenths, wc)
                 sel == ArticleSummarizer_select_sentences(sc, k)
             IN  [NoResult EXCEPT !.cleaned = c, !.sentences = s, !.scores = sc,
                                  !.num_sentences = k, !.selected_indices = sel,
                                  !.summary = join(<<" ">>, Pick(s, sel))]

\* ArticleSummarizer.summarize
ArticleSummarizer_summarize(t, ratio_tenths, wc, method_, corpora) ==
    IF t = <<>> THEN [NoResult EXCEPT !.raised = "ValueError"]
    ELSE LET c == processor_clean(t)
         IN  IF method_ = "gensim"
             THEN ArticleSummarizer_gensim_summarize(c, ratio_tenths, wc, corpora)
             ELSE IF method_ = "extractive"
             THEN ArticleSummarizer_extractive_summarize(c, ratio_tenths, wc, corpora)
             ELSE ArticleSummarizer_fallback_summarize(c, ratio_tenths)

(***************************************************************************)
(* Keywords and statistics.                                                *)
(***************************************************************************)
\* self.stopwords of src/text_processor.py, those spelled with the letters
\* of the model
TextProcessorStopwords ==
    { <<"a">>, <<"a", "n">>, <<"a", "n", "d">>, <<"a", "s">> }

\* a mutant of TextProcessor_extract_keywords: the instance remembers the
\* keywords it returned and leaves them out from then on
TextProcessor_extract_keywords_remembering(self_stopwords, s, num) ==
    LET IsKeyword(w) == isalpha(w) /\ w \notin self_stopwords
        keywords == most_common(SelectSeq(split(lower(s)), IsKeyword), num)
    IN  [returns |-> keywords,
         stopwords |-> self_stopwords \cup {keywords[k] : k \in 1..Len(keywords)}]

\* TextProcessor.extract_keywords of src/text_processor.py on an instance
\* whose self.stopwords is self_stopwords: what it returns, and
\* self.stopwords after the call (the method assigns to no attribute)
TextProcessor_extract_keywords(self_stopwords, s, num) ==
    LET IsKeyword(w) == isalpha(w) /\ w \notin self_stopwords
    IN  [returns |-> most_common(SelectSeq(split(lower(s)), IsKeyword), num),
         stopwords |-> self_stopwords]

\* TextProcessor().extract_keywords(s, num): on a new instance
text_processor_extract_keywords(s, num) ==
    TextProcessor_extract_keywords(TextProcessorStopwords, s, num).returns

\* len(words) / len(sentences) if sentences else 0
avg_sentence_length(words, sentences) ==
    IF sentences # <<>> THEN <<Len(words), Len(sentences)>> ELSE <<0, 1>>

\* TextProcessor.get_text_stats of src/text_processor.py
text_processor_get_text_stats(s) ==
    LET sentences == text_processor_split_into_sentences(s)
        words == split(s)
    IN  [NoStats EXCEPT !.num_sentences = Len(sentences),
                        !.num_words = Len(words),
                        !.avg_sentence_length = avg_sentence_length(words, sentences),
                        !.reading_time = Max(1, round(Len(words), 200))]

\* TextProcessor.get_reading_time of src/processor.py
processor_get_reading_time(s, wpm) == Max(1, round(Len(split(s)), wpm))

\* TextProcessor.get_text_stats of src/processor.py
processor_get_text_stats(s) ==
    LET sentences == processor_split_into_sentences(s)
        words == word_tokenize(s)
    IN  [NoStats EXCEPT !.num_sentences = Len(sentences),
                        !.num_words = Len(words),
                        !.avg_sentence_length = avg_sentence_length(words, sentences),
                        !.reading_time = processor_get_reading_time(s, 200)]

\* a mutant of compression_ratio: the quotient taken the other way round
compression_ratio_inverted(original_stats, summary_stats) ==
    IF original_stats.num_words > 0
    THEN <<original_stats.num_words, Max(summary_stats.num_words, 1)>>
    ELSE <<0, 1>>

\* lines 111-114 and 255-258: compression_ratio
compression_ratio(original_stats, summary_stats) ==
    IF original_stats.num_words > 0
    THEN <<summary_stats.num_words, original_stats.num_words>>
    ELSE <<0, 1>>

\* lines 116-122 and 260-266: the dictionary get_summary_stats returns
summary_stats_dict(original_stats, summary_stats) ==
    [NoStats EXCEPT !.original_length = original_stats.num_words,
                    !.summary_length = summary_stats.num_words,
                    !.compression_ratio = compression_ratio(original_stats,
                                                            summary_stats),
                    !.original_reading_time = original_stats.reading_time,
                    !.summary_reading_time = summary_stats.reading_time]

\* TextSummarizer.get_summary_stats
TextSummarizer_get_summary_stats(original_text, summary_) ==
    summary_stats_dict(text_processor_get_text_stats(original_text),
                       text_processor_get_text_stats(summary_))

\* ArticleSummarizer.get_summary_stats
ArticleSummarizer_get_summary_stats(original_text, summary_) ==
    summary_stats_dict(processor_get_text_stats(original_text),
                       processor_get_text_stats(summary_))

(***************************************************************************)
(* The objects the calls below do not touch, as their constructors leave   *)
(* them.                                                                   *)
(***************************************************************************)
\* the callers that share one TextSummarizer and its TextProcessor
Callers == {"first caller", "second caller"}

\* no call begun
Idle == [method |-> "", text |-> <<>>, ratio |-> 0, min_sentences |-> 0,
         num_keywords |-> 0]

\* TextSummarizer(): self.processor = TextProcessor(), whose __init__ sets
\* self.stopwords
NewInstance ==
    /\ stopwords = TextProcessorStopwords
    /\ pending = [c \in Callers |-> Idle]
    /\ history = <<>>

\* no URL
NoUrl == [scheme |-> "", host |-> ""]

\* None where an Article is expected; an Article is the url and the attempt
\* whose response it was extracted from
NoArticle == [url |-> NoUrl, attempt |-> 0]

\* a scraper on which no method runs
NoScraper ==
    [class |-> "", max_retries |-> 0, call |-> "", urls |-> <<>>, pc |-> "idle",
     index |-> 0, url |-> NoUrl, attempt |-> 0, trace |-> <<>>, outcome |-> "",
     article |-> NoArticle, raised_in |-> 0, articles |-> <<>>, results |-> <<>>]

\* DataStorage(base_dir) on an empty directory: no JSON file, no CSV file,
\* an empty articles table; calls is the save_article calls made so far
NewStorage ==
    [json |-> <<>>, csv |-> <<>>, sqlite |-> <<>>, next_id |-> 1, calls |-> <<>>]

NoObjects ==
    /\ NewInstance
    /\ scraper = NoScraper
    /\ storage = NewStorage

(***************************************************************************)
(* Cleaning: the inputs and the two calls.                                 *)
(***************************************************************************)
CleanAlphabet == {"b", "A", " ", "\n", "#", "<", ">"}

RECURSIVE StringsUpTo(_, _)
StringsUpTo(A, n) ==
    IF n = 0 THEN {<<>>}
    ELSE LET S == StringsUpTo(A, n - 1)
         IN  S \cup {Append(s, c) : s \in {t \in S : Len(t) = n - 1}, c \in A}

\* texts with entities, nested and malformed tags
CleanSamples ==
    { <<"b", "&", "n", "b", "s", "p", ";", "b">>,
      <<"&", "a", "m", "p", ";", "n", "b", "s", "p", ";">>,
      <<"&", "a", "m", "p", ";", "a", "m", "p", ";">>,
      <<"<", "<", "b", ">", ">", "b">>,
      <<"b", " ", "&", " ", "b", ".">> }

CleanInputs == StringsUpTo(CleanAlphabet, MaxLen) \cup CleanSamples

NoCall ==
    /\ ratio = 0
    /\ min_sentences = 0
    /\ word_count = 0
    /\ method = ""
    /\ nltk_data = TRUE
    /\ num_keywords = 0
    /\ summary = <<>>

\* a call is pending: its arguments are chosen, nothing is computed yet
CleanInit ==
    /\ op \in {"pending text_processor.clean", "pending processor.clean"}
    /\ text \in CleanInputs
    /\ NoCall
    /\ result = NoResult
    /\ NoObjects

\* processor.clean(text) on a TextProcessor of src/text_processor.py
Call_text_processor_clean ==
    /\ op = "pending text_processor.clean"
    /\ op' = "text_processor.clean"
    /\ result' = [NoResult EXCEPT !.cleaned = text_processor_clean(text)]
    /\ UNCHANGED <<text, ratio, min_sentences, word_count, method, nltk_data,
                   num_keywords, summary>>
    /\ UNCHANGED <<stopwords, pending, history, scraper, storage>>

\* processor.clean(text) on a TextProcessor of src/processor.py
Call_processor_clean ==
    /\ op = "pending processor.clean"
    /\ op' = "processor.clean"
    /\ result' = [NoResult EXCEPT !.cleaned = processor_clean(text)]
    /\ UNCHANGED <<text, ratio, min_sentences, word_count, method, nltk_data,
                   num_keywords, summary>>
    /\ UNCHANGED <<stopwords, pending, history, scraper, storage>>

CleanNext == Call_text_processor_clean \/ Call_processor_clean

SpecClean == CleanInit /\ [][CleanNext]_vars

(***************************************************************************)
(* Summarizing: the inputs and the two calls.                              *)
(***************************************************************************)
FragPlain == <<"b", " ", "c", ".">>
FragFive == <<"a", " ", "b", " ", "b", " ", "d", " ", "d", ".">>
FragOpen == <<"B", " ", "c">>
FragThree == <<"d", "?", " ", "c", "!", " ", "b", ".">>

Fragments == {FragPlain, FragFive, FragOpen, FragThree}

RECURSIVE FragmentDocs(_)
FragmentDocs(n) ==
    IF n = 0 THEN {<<>>}
    ELSE LET D == FragmentDocs(n - 1)
         IN  D \cup {IF d = <<>> THEN f ELSE d \o <<" ">> \o f :
                        d \in D, f \in Fragments}

\* ten sentences of fifteen words each
ScenarioSentence(i) ==
    join(<<" ">>, [j \in 1..15 |-> <<IF (i * j) % 4 = 0 THEN "c" ELSE "b">>])

ScenarioText ==
    join(<<".", " ">>, [i \in 1..10 |-> ScenarioSentence(i)]) \o <<".">>

Documents == FragmentDocs(MaxFragments)

\* tenths: 0.0, 0.1, 0.3, 0.5, 0.7, 1.0 and 1.5
Ratios == {0, 1, 3, 5, 7, 10, 15}

\* 0 stands for None; the values are such that Python's
\* round(word_count / mean) is the exact quotient rounded half to even
WordCounts == {-2, 0, 1, 4, 6}

Methods == {"gensim", "extractive", "abstractive"}

\* a call is pending: its arguments are chosen, nothing is computed yet
Init ==
    /\ ratio \in Ratios
    /\ num_keywords = 0
    /\ summary = <<>>
    /\ result = NoResult
    /\ \/ /\ op = "pending TextSummarizer.summarize"
          /\ text \in Documents \cup {ScenarioText}
          /\ min_sentences \in 0..MaxMinSentences
          /\ word_count = 0
          /\ method = ""
          /\ nltk_data = TRUE
       \/ /\ op = "pending ArticleSummarizer.summarize"
          /\ text \in Documents
          /\ min_sentences = 0
          /\ word_count \in WordCounts
          /\ method \in Methods
          /\ nltk_data \in BOOLEAN
    /\ NoObjects

\* TextSummarizer().summarize(text, ratio, min_sentences)
CallTextSummarize ==
    /\ op = "pending TextSummarizer.summarize"
    /\ op' = "TextSummarizer.summarize"
    /\ result' = TextSummarizer_summarize(text, ratio, min_sentences)
    /\ UNCHANGED <<text, ratio, min_sentences, word_count, method, nltk_data,
                   num_keywords, summary>>
    /\ UNCHANGED <<stopwords, pending, history, scraper, storage>>

\* ArticleSummarizer().summarize(text, ratio, word_count, method), with or
\* without the nltk corpora installed
CallArticleSummarize ==
    /\ op = "pending ArticleSummarizer.summarize"
    /\ op' = "ArticleSummarizer.summarize"
    /\ result' = ArticleSummarizer_summarize(text, ratio, word_count, method,
                                             nltk_data)
    /\ UNCHANGED <<text, ratio, min_sentences, word_count, method, nltk_data,
                   num_keywords, summary>>
    /\ UNCHANGED <<stopwords, pending, history, scraper, storage>>

Next == CallTextSummarize \/ CallArticleSummarize

Spec == Init /\ [][Next]_vars

(***************************************************************************)
(* Splitting, keywords and statistics: the inputs and the calls.           *)
(***************************************************************************)
\* words, and a line break that stands between two of them
TextWords ==
    { <<"b">>, <<"c">>, <<"a">>, <<"B">>, <<"c", "?">>, <<"b", ".", "c">>,
      <<"\n">> }

RECURSIVE WordTexts(_)
WordTexts(n) ==
    IF n = 0 THEN {<<>>}
    ELSE LET D == WordTexts(n - 1)
         IN  D \cup {IF d = <<>> THEN w ELSE d \o <<" ">> \o w :
                        d \in D, w \in TextWords}

\* "a b c d e f g h i j" and "a b c"
TenWords ==
    join(<<" ">>, <<<<"a">>, <<"b">>, <<"c">>, <<"d">>, <<"e">>, <<"f">>,
                    <<"g">>, <<"h">>, <<"i">>, <<"j">>>>)

ThreeWords == <<"a", " ", "b", " ", "c">>

\* 299 whitespace-delimited words in two sentences: "b b ... b. b b ... b."
LongText ==
    [i \in 1..599 |->
        IF i \in {300, 599} THEN "."
        ELSE IF i < 300 THEN (IF i % 2 = 1 THEN "b" ELSE " ")
        ELSE (IF i % 2 = 0 THEN "b" ELSE " ")]

TextInputs == WordTexts(MaxWords) \cup {TenWords}

SummaryInputs == {<<>>, <<"c", ".">>, ThreeWords}

\* num_keywords=5 of process_article
AnalyzerKeywords == 5

\* ratio=0.3 of process_article, and the whole text
AnalyzerRatios == {3, 10}

\* min_sentences of summarize: 1 and the default
AnalyzerMinSentences == {1, DefaultMinSentences}

TextInit ==
    /\ word_count = 0
    /\ method = ""
    /\ result = NoResult
    /\ \/ /\ op \in {"pending text_processor.split_into_sentences",
                      "pending processor.split_into_sentences"}
          /\ text \in TextInputs
          /\ nltk_data = TRUE
          /\ num_keywords = 0
          /\ summary = <<>>
       \/ /\ op = "pending text_processor.extract_keywords"
          /\ text \in TextInputs
          /\ nltk_data = TRUE
          /\ num_keywords \in 0..MaxKeywords
          /\ summary = <<>>
       \/ /\ op = "pending processor.extract_keywords"
          /\ text \in TextInputs
          /\ nltk_data \in BOOLEAN
          /\ num_keywords \in 0..MaxKeywords
          /\ summary = <<>>
       \/ /\ op = "pending text_processor.get_text_stats"
          /\ text \in TextInputs \cup {LongText}
          /\ nltk_data = TRUE
          /\ num_keywords = 0
          /\ summary = <<>>
       \/ /\ op = "pending processor.get_text_stats"
          /\ text \in TextInputs \cup {LongText}
          /\ nltk_data \in BOOLEAN
          /\ num_keywords = 0
          /\ summary = <<>>
       \/ /\ op = "pending TextSummarizer.get_summary_stats"
          /\ text \in TextInputs
          /\ nltk_data = TRUE
          /\ num_keywords = 0
          /\ summary \in SummaryInputs
       \/ /\ op = "pending ArticleSummarizer.get_summary_stats"
          /\ text \in TextInputs
          /\ nltk_data \in BOOLEAN
          /\ num_keywords = 0
          /\ summary \in SummaryInputs
       \/ /\ op = "pending ArticleAnalyzer.process_article"
          /\ text \in TextInputs
          /\ nltk_data = TRUE
          /\ num_keywords = AnalyzerKeywords
          /\ summary = <<>>
    /\ IF op = "pending ArticleAnalyzer.process_article"
       THEN ratio \in AnalyzerRatios /\ min_sentences \in AnalyzerMinSentences
       ELSE ratio = 0 /\ min_sentences = 0
    /\ NoObjects

\* nltk.word_tokenize without the punkt corpus
LookupError == [NoResult EXCEPT !.raised = "LookupError"]

\* TextProcessor().split_into_sentences(text), src/text_processor.py
Call_text_processor_split_into_sentences ==
    /\ op = "pending text_processor.split_into_sentences"
    /\ op' = "text_processor.split_into_sentences"
    /\ result' = [NoResult EXCEPT
                     !.sentences = text_processor_split_into_sentences(text)]
    /\ UNCHANGED <<text, ratio, min_sentences, word_count, method, nltk_data,
                   num_keywords, summary>>
    /\ UNCHANGED <<stopwords, pending, history, scraper, storage>>

\* TextProcessor().split_into_sentences(text), src/processor.py
Call_processor_split_into_sentences ==
    /\ op = "pending processor.split_into_sentences"
    /\ op' = "processor.split_into_sentences"
    /\ result' = [NoResult EXCEPT
                     !.sentences = processor_split_into_sentences(text)]
    /\ UNCHANGED <<text, ratio, min_sentences, word_count, method, nltk_data,
                   num_keywords, summary>>
    /\ UNCHANGED <<stopwords, pending, history, scraper, storage>>

\* TextProcessor().extract_keywords(text, num_keywords), src/text_processor.py
Call_text_processor_extract_keywords ==
    /\ op = "pending text_processor.extract_keywords"
    /\ op' = "text_processor.extract_keywords"
    /\ result' = [NoResult EXCEPT
                     !.keywords = text_processor_extract_keywords(text, num_keywords)]
    /\ UNCHANGED <<text, ratio, min_sentences, word_count, method, nltk_data,
                   num_keywords, summary>>
    /\ UNCHANGED <<stopwords, pending, history, scraper, storage>>

\* TextProcessor().extract_keywords(text, num_keywords), src/processor.py
Call_processor_extract_keywords ==
    /\ op = "pending processor.extract_keywords"
    /\ op' = "processor.extract_keywords"
    /\ result' = IF nltk_data
                 THEN [NoResult EXCEPT
                         !.keywords = processor_extract_keywords(text, num_keywords)]
                 ELSE LookupError
    /\ UNCHANGED <<text, ratio, min_sentences, word_count, method, nltk_data,
                   num_keywords, summary>>
    /\ UNCHANGED <<stopwords, pending, history, scraper, storage>>

\* TextProcessor().get_text_stats(text), src/text_processor.py
Call_text_processor_get_text_stats ==
    /\ op = "pending text_processor.get_text_stats"
    /\ op' = "text_processor.get_text_stats"
    /\ result' = [NoResult EXCEPT !.stats = text_processor_get_text_stats(text)]
    /\ UNCHANGED <<text, ratio, min_sentences, word_count, method, nltk_data,
                   num_keywords, summary>>
    /\ UNCHANGED <<stopwords, pending, history, scraper, storage>>

\* TextProcessor().get_text_stats(text), src/processor.py
Call_processor_get_text_stats ==
    /\ op = "pending processor.get_text_stats"
    /\ op' = "processor.get_text_stats"
    /\ result' = IF nltk_data
                 THEN [NoResult EXCEPT !.stats = processor_get_text_stats(text)]
                 ELSE LookupError
    /\ UNCHANGED <<text, ratio, min_sentences, word_count, method, nltk_data,
                   num_keywords, summary>>
    /\ UNCHANGED <<stopwords, pending, history, scraper, storage>>

\* TextSummarizer().get_summary_stats(text, summary)
Call_TextSummarizer_get_summary_stats ==
    /\ op = "pending TextSummarizer.get_summary_stats"
    /\ op' = "TextSummarizer.get_summary_stats"
    /\ result' = [NoResult EXCEPT
                     !.stats = TextSummarizer_get_summary_stats(text, summary)]
    /\ UNCHANGED <<text, ratio, min_sentences, word_count, method, nltk_data,
                   num_keywords, summary>>
    /\ UNCHANGED <<stopwords, pending, history, scraper, storage>>

\* ArticleSummarizer().get_summary_stats(text, summary)
Call_ArticleSummarizer_get_summary_stats ==
    /\ op = "pending ArticleSummarizer.get_summary_stats"
    /\ op' = "ArticleSummarizer.get_summary_stats"
    /\ result' = IF nltk_data
                 THEN [NoResult EXCEPT
                         !.stats = ArticleSummarizer_get_summary_stats(text, summary)]
                 ELSE LookupError
    /\ UNCHANGED <<text, ratio, min_sentences, word_count, method, nltk_data,
                   num_keywords, summary>>
    /\ UNCHANGED <<stopwords, pending, history, scraper, storage>>

\* lines 43-47 of ArticleAnalyzer.process_article: the content is cleaned,
\* its statistics and keywords are taken, it is summarized and the summary
\* is compared with it
ArticleAnalyzer_process_content(content, ratio_tenths, min_count, num) ==
    LET cleaned_content == text_processor_clean(content)
        stats == text_processor_get_text_stats(cleaned_content)
        keywords == text_processor_extract_keywords(cleaned_content, num)
        summary_ == TextSummarizer_summarize(cleaned_content, ratio_tenths,
                                             min_count).summary
        summary_stats == TextSummarizer_get_summary_stats(cleaned_content, summary_)
    IN  [NoResult EXCEPT
            !.cleaned = cleaned_content,
            !.keywords = keywords,
            !.summary = summary_,
            !.stats = [summary_stats EXCEPT
                          !.num_sentences = stats.num_sentences,
                          !.num_words = stats.num_words,
                          !.avg_sentence_length = stats.avg_sentence_length,
                          !.reading_time = stats.reading_time]]

\* ArticleAnalyzer().process_article(url) on an article of content text
Call_ArticleAnalyzer_process_article ==
    /\ op = "pending ArticleAnalyzer.process_article"
    /\ op' = "ArticleAnalyzer.process_article"
    /\ result' = ArticleAnalyzer_process_content(text, ratio, min_sentences,
                                                  num_keywords)
    /\ UNCHANGED <<text, ratio, min_sentences, word_count, method, nltk_data,
                   num_keywords, summary>>
    /\ UNCHANGED <<stopwords, pending, history, scraper, storage>>

TextNext ==
    \/ Call_text_processor_split_into_sentences
    \/ Call_processor_split_into_sentences
    \/ Call_text_processor_extract_keywords
    \/ Call_processor_extract_keywords
    \/ Call_text_processor_get_text_stats
    \/ Call_processor_get_text_stats
    \/ Call_TextSummarizer_get_summary_stats
    \/ Call_ArticleSummarizer_get_summary_stats
    \/ Call_ArticleAnalyzer_process_article

SpecText == TextInit /\ [][TextNext]_vars

(***************************************************************************)
(* One TextSummarizer, and the TextProcessor it holds, shared by several   *)
(* callers: a caller begins a call, and the call runs and returns at some  *)
(* later moment, so that the calls of the callers interleave.              *)
(***************************************************************************)
\* "c c b. B d" and "a d! c."
InstanceText == <<"c", " ", "c", " ", "b", ".", " ", "B", " ", "d">>

InstanceTexts == {InstanceText, <<"a", " ", "d", "!", " ", "c", ".">>}

InstanceMethods ==
    {"summarize", "clean", "split_into_sentences", "extract_keywords",
     "get_text_stats"}

\* the calls a caller makes: summarize(text, 0.5, 1), clean(text),
\* split_into_sentences(text), extract_keywords(text, 1), get_text_stats(text),
\* extract_keywords with either text, the others with the first
InstanceCalls ==
    { [method |-> mt[1], text |-> mt[2],
       ratio |-> IF mt[1] = "summarize" THEN 5 ELSE 0,
       min_sentences |-> IF mt[1] = "summarize" THEN 1 ELSE 0,
       num_keywords |-> IF mt[1] = "extract_keywords" THEN 1 ELSE 0] :
         mt \in {x \in InstanceMethods \X InstanceTexts :
                    x[1] = "extract_keywords" \/ x[2] = InstanceText} }

InstanceInit ==
    /\ op = "shared instance"
    /\ text = <<>>
    /\ NoCall
    /\ result = NoResult
    /\ NoObjects

\* the calls begun so far
CallsBegun ==
    Len(history) + Cardinality({c \in Callers : pending[c] # Idle})

\* a caller begins a call on the shared instance
Invoke ==
    /\ CallsBegun < MaxCalls
    /\ \E c \in Callers, call \in InstanceCalls :
          /\ pending[c] = Idle
          /\ pending' = [pending EXCEPT ![c] = call]
    /\ UNCHANGED <<op, text, ratio, min_sentences, word_count, method, nltk_data,
                   num_keywords, summary, result>>
    /\ UNCHANGED <<stopwords, history, scraper, storage>>

\* the call of caller c returns value
Returned(c, value) ==
    /\ history' = Append(history, [caller |-> c, call |-> pending[c],
                                   returns |-> value])
    /\ pending' = [pending EXCEPT ![c] = Idle]
    /\ UNCHANGED <<op, text, ratio, min_sentences, word_count, method, nltk_data,
                   num_keywords, summary, result>>
    /\ UNCHANGED <<scraper, storage>>

\* summarizer.summarize(text, ratio, min_sentences) runs and returns
Return_summarize ==
    \E c \in Callers :
        /\ pending[c].method = "summarize"
        /\ Returned(c, TextSummarizer_summarize(pending[c].text, pending[c].ratio,
                                                pending[c].min_sentences).summary)
        /\ UNCHANGED stopwords

\* summarizer.processor.clean(text) runs and returns
Return_clean ==
    \E c \in Callers :
        /\ pending[c].method = "clean"
        /\ Returned(c, text_processor_clean(pending[c].text))
        /\ UNCHANGED stopwords

\* summarizer.processor.split_into_sentences(text) runs and returns
Return_split_into_sentences ==
    \E c \in Callers :
        /\ pending[c].method = "split_into_sentences"
        /\ Returned(c, text_processor_split_into_sentences(pending[c].text))
        /\ UNCHANGED stopwords

\* summarizer.processor.extract_keywords(text, num_keywords) runs and
\* returns: it reads self.stopwords
Return_extract_keywords ==
    \E c \in Callers :
        /\ pending[c].method = "extract_keywords"
        /\ LET r == TextProcessor_extract_keywords(stopwords, pending[c].text,
                                                   pending[c].num_keywords)
           IN  /\ Returned(c, r.returns)
               /\ stopwords' = r.stopwords

\* summarizer.processor.get_text_stats(text) runs and returns
Return_get_text_stats ==
    \E c \in Callers :
        /\ pending[c].method = "get_text_stats"
        /\ Returned(c, text_processor_get_text_stats(pending[c].text))
        /\ UNCHANGED stopwords

InstanceNext ==
    \/ Invoke
    \/ Return_summarize
    \/ Return_clean
    \/ Return_split_into_sentences
    \/ Return_extract_keywords
    \/ Return_get_text_stats

SpecInstance == InstanceInit /\ [][InstanceNext]_vars

(***************************************************************************)
(* The scrapers (src/scraper.py, src/enhanced_scraper.py,                  *)
(* src/news_scraper.py): scrape(url), whose three copies have the same     *)
(* control flow, and ArticleScraper.bulk_scrape(urls), step by step.       *)
(* scraper.pc is the position of the call, scraper.trace the delays and    *)
(* fetches of the scrape under way.                                        *)
(***************************************************************************)
ScraperClasses == {"ArticleScraper", "EnhancedScraper", "DefenseNewsScraper"}

\* two URLs validators.url accepts, and one without a scheme
Urls ==
    { [scheme |-> "https", host |-> "a.example"],
      [scheme |-> "http", host |-> "b.example"],
      [scheme |-> "", host |-> "a.example"] }

\* validators.url(url): true of an http(s) URL with a host
validators_url(url) == url.scheme \in {"http", "https"} /\ url.host # ""

RECURSIVE UrlLists(_)
UrlLists(n) ==
    IF n = 0 THEN {<<>>}
    ELSE LET L == UrlLists(n - 1)
         IN  L \cup {Append(l, u) : l \in {x \in L : Len(x) = n - 1}, u \in Urls}

\* a scraper as its constructor leaves it, and a call of scrape(url) (of
\* scrape_article(url) on a DefenseNewsScraper) or of bulk_scrape(urls)
\* that begins
ScrapeInit ==
    /\ op = "scraper"
    /\ text = <<>>
    /\ NoCall
    /\ result = NoResult
    /\ NewInstance
    /\ storage = NewStorage
    /\ \E c \in ScraperClasses, m \in (-1)..MaxRetries :
          \/ \E u \in Urls :
                scraper = [NoScraper EXCEPT !.class = c, !.max_retries = m,
                                            !.call = "scrape", !.urls = <<u>>,
                                            !.url = u, !.pc = "scrape: validate"]
          \/ /\ c = "ArticleScraper"
             /\ \E l \in UrlLists(MaxUrls) :
                   scraper = [NoScraper EXCEPT !.class = c, !.max_retries = m,
                                               !.call = "bulk_scrape", !.urls = l,
                                               !.pc = "bulk_scrape: for"]

ScraperStep ==
    /\ UNCHANGED <<op, text, ratio, min_sentences, word_count, method, nltk_data,
                   num_keywords, summary, result>>
    /\ UNCHANGED <<stopwords, pending, history, storage>>

\* bulk_scrape, "for url in urls: ... self.scrape(url)": the next url
BulkScrapeNext ==
    /\ scraper.pc = "bulk_scrape: for"
    /\ scraper.index < Len(scraper.urls)
    /\ scraper' = [scraper EXCEPT !.index = @ + 1,
                                  !.url = scraper.urls[scraper.index + 1],
                                  !.attempt = 0, !.trace = <<>>, !.outcome = "",
                                  !.article = NoArticle, !.raised_in = 0,
                                  !.pc = "scrape: validate"]
    /\ ScraperStep

\* bulk_scrape, "return articles"
BulkScrapeReturn ==
    /\ scraper.pc = "bulk_scrape: for"
    /\ scraper.index = Len(scraper.urls)
    /\ scraper' = [scraper EXCEPT !.pc = "bulk_scrape: returned"]
    /\ ScraperStep

\* scrape, "if not validators.url(url): raise ValueError"
Validate ==
    /\ scraper.pc = "scrape: validate"
    /\ scraper' = IF validators_url(scraper.url)
                  THEN [scraper EXCEPT !.pc = "scrape: for", !.attempt = 0]
                  ELSE [scraper EXCEPT !.pc = "scrape: raised",
                                       !.outcome = "ValueError"]
    /\ ScraperStep

\* range(self.max_retries) has a value left for attempt
in_range(attempt, max_retries) == attempt < max_retries

\* scrape, "for attempt in range(self.max_retries)": one more attempt
Attempt ==
    /\ scraper.pc = "scrape: for"
    /\ in_range(scraper.attempt, scraper.max_retries)
    /\ scraper' = [scraper EXCEPT !.pc = "scrape: delay"]
    /\ ScraperStep

\* scrape, the for loop is exhausted: the function body ends, which returns
\* None
FallOffEnd ==
    /\ scraper.pc = "scrape: for"
    /\ ~in_range(scraper.attempt, scraper.max_retries)
    /\ scraper' = [scraper EXCEPT !.pc = "scrape: returned", !.outcome = "None",
                                  !.article = NoArticle]
    /\ ScraperStep

\* scrape, "self._random_delay()"
RandomDelay ==
    /\ scraper.pc = "scrape: delay"
    /\ scraper' = [scraper EXCEPT !.trace = Append(@, "delay"),
                                  !.pc = "scrape: fetch"]
    /\ ScraperStep

\* scrape, the rest of the try block without an exception: the page is
\* fetched, the Article extracted from it and returned
FetchSucceeds ==
    /\ scraper.pc = "scrape: fetch"
    /\ scraper' = [scraper EXCEPT
                      !.trace = Append(@, "fetched"),
                      !.outcome = "Article",
                      !.article = [url |-> scraper.url,
                                   attempt |-> scraper.attempt + 1],
                      !.pc = "scrape: returned"]
    /\ ScraperStep

\* a mutant of is_last_attempt: the comparison is off by one
is_last_attempt_off_by_one(attempt, max_retries) == attempt = max_retries

\* "if attempt == self.max_retries - 1"
is_last_attempt(attempt, max_retries) == attempt = max_retries - 1

\* scrape, the get or the extraction raises: "except Exception as e", which
\* re-raises e on the last attempt and goes on with the loop otherwise
FetchFails ==
    /\ scraper.pc = "scrape: fetch"
    /\ scraper' = IF is_last_attempt(scraper.attempt, scraper.max_retries)
                  THEN [scraper EXCEPT !.trace = Append(@, "failed"),
                                       !.outcome = "Exception",
                                       !.raised_in = scraper.attempt + 1,
                                       !.pc = "scrape: raised"]
                  ELSE [scraper EXCEPT !.trace = Append(@, "failed"),
                                       !.attempt = @ + 1,
                                       !.pc = "scrape: for"]
    /\ ScraperStep

\* bulk_scrape, "article = self.scrape(url); articles.append(article)"
BulkScrapeAppend ==
    /\ scraper.call = "bulk_scrape"
    /\ scraper.pc = "scrape: returned"
    /\ scraper' = [scraper EXCEPT
                      !.articles = Append(@, scraper.article),
                      !.results = Append(@, [url |-> scraper.url,
                                             outcome |-> scraper.outcome,
                                             article |-> scraper.article]),
                      !.pc = "bulk_scrape: for"]
    /\ ScraperStep

\* bulk_scrape, "except Exception as e: logger.error(...); continue"
BulkScrapeContinue ==
    /\ scraper.call = "bulk_scrape"
    /\ scraper.pc = "scrape: raised"
    /\ scraper' = [scraper EXCEPT
                      !.results = Append(@, [url |-> scraper.url,
                                             outcome |-> scraper.outcome,
                                             article |-> NoArticle]),
                      !.pc = "bulk_scrape: for"]
    /\ ScraperStep

ScrapeNext ==
    \/ BulkScrapeNext
    \/ BulkScrapeReturn
    \/ Validate
    \/ Attempt
    \/ FallOffEnd
    \/ RandomDelay
    \/ FetchSucceeds
    \/ FetchFails
    \/ BulkScrapeAppend
    \/ BulkScrapeContinue

SpecScrape == ScrapeInit /\ [][ScrapeNext]_vars

(***************************************************************************)
(* DataStorage (src/storage.py): the JSON file is a list of records, the   *)
(* CSV file a list of rows, the articles table a list of rows in the order *)
(* of their ids.  The saved_at and created_at time stamps are left out.    *)
(***************************************************************************)
\* Python's None
None == "<None>"

\* the article dictionaries given to save_article: url, title and content
StorageArticles ==
    { [url |-> u, title |-> "a title", content |-> c] :
        u \in {"https://a.example/1", "https://a.example/2"},
        c \in {"first text", "second text"} }

\* _save_json: the record appended to the list of the file; the summary
\* key is set "if summary", and "<absent>" stands for a record without it
_save_json(data, article, summary_) ==
    Append(data, [url |-> article.url, title |-> article.title,
                  content |-> article.content,
                  summary |-> IF summary_ \notin {None, ""}
                              THEN summary_ ELSE "<absent>"])

\* _save_csv: the row appended to the file; its summary is "summary or ''"
_save_csv(rows, article, summary_) ==
    Append(rows, [url |-> article.url, title |-> article.title,
                  content |-> article.content,
                  summary |-> IF summary_ \notin {None, ""}
                              THEN summary_ ELSE ""])

\* a mutant of _save_sqlite: INSERT OR IGNORE, the row of a known url stays
_save_sqlite_or_ignore(rows, next_id, article, summary_) ==
    IF \E k \in 1..Len(rows) : rows[k].url = article.url THEN rows
    ELSE Append(rows, [id |-> next_id, url |-> article.url,
                       title |-> article.title, content |-> article.content,
                       summary |-> summary_])

\* _save_sqlite: INSERT OR REPLACE on a table whose url column is UNIQUE; the
\* row of the same url, if any, is deleted and the new row gets the next id
_save_sqlite(rows, next_id, article, summary_) ==
    LET IsOther(row) == row.url # article.url
    IN  Append(SelectSeq(rows, IsOther),
               [id |-> next_id, url |-> article.url, title |-> article.title,
                content |-> article.content, summary |-> summary_])

StorageInit ==
    /\ op = "storage"
    /\ text = <<>>
    /\ NoCall
    /\ result = NoResult
    /\ NoObjects

\* DataStorage.save_article(article, summary, format), a call that succeeds
save_article ==
    /\ Len(storage.calls) < MaxSaves
    /\ \E article \in StorageArticles, summary_ \in {None, "", "a summary"},
          format \in {"json", "csv", "sqlite", "all"} :
          storage' =
              [json |-> IF format \in {"json", "all"}
                        THEN _save_json(storage.json, article, summary_)
                        ELSE storage.json,
               csv |-> IF format \in {"csv", "all"}
                       THEN _save_csv(storage.csv, article, summary_)
                       ELSE storage.csv,
               sqlite |-> IF format \in {"sqlite", "all"}
                          THEN _save_sqlite(storage.sqlite, storage.next_id,
                                            article, summary_)
                          ELSE storage.sqlite,
               next_id |-> IF format \in {"sqlite", "all"}
                           THEN storage.next_id + 1 ELSE storage.next_id,
               calls |-> Append(storage.calls,
                                [article |-> article, summary |-> summary_,
                                 format |-> format])]
    /\ UNCHANGED <<op, text, ratio, min_sentences, word_count, method, nltk_data,
                   num_keywords, summary, result>>
    /\ UNCHANGED <<stopwords, pending, history, scraper>>

StorageNext == save_article

SpecStorage == StorageInit /\ [][StorageNext]_vars

(***************************************************************************)
(* Properties.                                                             *)
(***************************************************************************)
TextDone == op = "TextSummarizer.summarize"
ArticleDone == op = "ArticleSummarizer.summarize"

\* the number of sentences of the returned summary
NumSelected == Len(result.selected_indices)

StrictlyIncreasing(seq) == \A k \in 1..(Len(seq) - 1) : seq[k] < seq[k + 1]

InRange(seq, n) == \A k \in 1..Len(seq) : 0 <= seq[k] /\ seq[k] < n

\* the selected positions in the order the ranking gave them
RankingOrder ==
    Prefix(sorted_by_score_desc(result.scores, Len(result.scores)),
           result.num_sentences)

\* C1: the sentences of the summary are the source sentences at strictly
\* increasing positions, whatever the order of the scores
\* (TextSummarizer.summarize and the extractive method of ArticleSummarizer)
OrderPreservation ==
    /\ TextDone =>
          /\ StrictlyIncreasing(result.selected_indices)
          /\ InRange(result.selected_indices, Len(result.sentences))
          /\ text_processor_split_into_sentences(result.summary)
                = Pick(result.sentences, result.selected_indices)
    /\ ArticleDone /\ method = "extractive" =>
          /\ StrictlyIncreasing(result.selected_indices)
          /\ InRange(result.selected_indices, Len(result.sentences))
          /\ processor_split_into_sentences(result.summary)
                = Pick(result.sentences, result.selected_indices)

\* C1 witness: a summary of two or more sentences whose score ranking is not
\* their position order
OrderPreservationWitness ==
    /\ TextDone
    /\ NumSelected >= 2
    /\ RankingOrder # result.selected_indices

\* C2: when scoring fails in ArticleSummarizer.summarize the call does not
\* raise and returns the first k source sentences, k being the number of
\* sentences the same request (a ratio, or a positive word_count) selects
\* when scoring succeeds
FallbackSafety ==
    ArticleDone /\ method \in {"gensim", "extractive"} /\ ~nltk_data
                /\ word_count >= 0
                /\ processor_split_into_sentences(result.cleaned) # <<>> =>
        LET k == Len(ArticleSummarizer_summarize(text, ratio, word_count, method,
                                                 TRUE).selected_indices)
        IN  /\ result.raised = ""
            /\ result.summary
                  = join(<<" ">>, SubSeq(processor_split_into_sentences(result.cleaned), 1, k))

\* the first ratio of Ratios above r, r itself when there is none
NextRatio(r) ==
    IF \E x \in Ratios : x > r THEN SetMin({x \in Ratios : x > r}) ELSE r

\* C3: with the text and min_sentences fixed, a larger ratio never selects
\* fewer sentences (TextSummarizer.summarize, and ArticleSummarizer.summarize
\* when no word count is given)
LengthMonotonicity ==
    /\ TextDone =>
          NumSelected <= Len(TextSummarizer_summarize(
                                 text, NextRatio(ratio), min_sentences).selected_indices)
    /\ ArticleDone /\ word_count = 0 =>
          NumSelected <= Len(ArticleSummarizer_summarize(
                                 text, NextRatio(ratio), 0, method,
                                 nltk_data).selected_indices)

\* C3 witness: a summary that a larger ratio makes strictly longer
LengthMonotonicityWitness ==
    /\ TextDone
    /\ NumSelected >= 1
    /\ NumSelected < Len(TextSummarizer_summarize(
                             text, NextRatio(ratio), min_sentences).selected_indices)

\* C4: with the default minimum of 3 sentences and any ratio >= 0, a
\* source of at least 3 sentences gives a summary of at least 3 sentences,
\* in both summarizers
MinimumSentenceFloor ==
    /\ TextDone /\ min_sentences = DefaultMinSentences
                /\ Len(result.sentences) >= DefaultMinSentences =>
          NumSelected >= DefaultMinSentences
    /\ ArticleDone /\ word_count = 0
                /\ Len(processor_split_into_sentences(result.cleaned)) >= DefaultMinSentences =>
          NumSelected >= DefaultMinSentences

\* the integer nearest to num / den, the even one of the two on a tie
NearestInteger(num, den) ==
    CHOOSE m \in -200..200 :
        LET twice == 2 * (num - m * den)
            dist == IF twice < 0 THEN -twice ELSE twice
        IN  dist < den \/ (dist = den /\ m % 2 = 0)

\* C5: TextSummarizer.summarize selects exactly
\* min(total, max(min_sentences, round(total * ratio))) sentences; ten
\* sentences of fifteen words with ratio 0.3 and min_sentences 3 give three
\* sentences, in ascending position order
RatioTarget ==
    /\ TextDone /\ result.sentences # <<>> =>
          LET total == Len(result.sentences)
              target == NearestInteger(total * ratio, 10)
              floor_ == IF target < min_sentences THEN min_sentences ELSE target
          IN  NumSelected = IF floor_ > total THEN total ELSE floor_
    /\ TextDone /\ text = ScenarioText /\ ratio = 3
                /\ min_sentences = DefaultMinSentences =>
          /\ Len(result.sentences) = 10
          /\ \A k \in 1..10 : Len(split(result.sentences[k])) = 15
          /\ NumSelected = 3
          /\ StrictlyIncreasing(result.selected_indices)

\* C5 witness: the scenario of ten sentences of fifteen words
RatioTargetWitness ==
    /\ TextDone
    /\ text = ScenarioText
    /\ ratio = 3
    /\ min_sentences = DefaultMinSentences
    /\ NumSelected = 3

\* C6: clean(clean(x)) = clean(x), for both TextProcessor.clean variants
CleanIdempotent ==
    /\ op = "text_processor.clean" => text_processor_clean(result.cleaned) = result.cleaned
    /\ op = "processor.clean" => processor_clean(result.cleaned) = result.cleaned

\* C7: with a positive word_count the number of sentences of the summary
\* does not depend on the ratio
WordCountPrecedence ==
    ArticleDone /\ word_count > 0 =>
        \A r \in Ratios :
            Len(ArticleSummarizer_summarize(text, r, word_count, method,
                                            nltk_data).selected_indices) = NumSelected

\* C8: with a word_count target the number of sentences kept is
\* round(word_count / mean words per sentence) clamped to [1, total], so at
\* least one sentence of a source that has one
WordCountTarget ==
    ArticleDone /\ word_count > 0 /\ method \in {"gensim", "extractive"}
                /\ nltk_data /\ processor_split_into_sentences(result.cleaned) # <<>> =>
        LET total == Len(processor_split_into_sentences(result.cleaned))
            target == NearestInteger(word_count * total, Len(split(result.cleaned)))
            capped == IF target > total THEN total ELSE target
        IN  /\ NumSelected >= 1
            /\ NumSelected = IF capped < 1 THEN 1 ELSE capped

Selected(i) == \E k \in 1..NumSelected : result.selected_indices[k] = i

\* C9: the selected sentences are the highest-scoring ones, and of two
\* sentences with the same score the earlier one is selected first
\* (TextSummarizer.summarize and ArticleSummarizer._select_sentences)
TieBreaking ==
    (TextDone \/ (ArticleDone /\ method = "extractive" /\ ~result.fallback))
    /\ result.num_sentences >= 0 =>
        /\ NumSelected = Min(result.num_sentences, Len(result.sentences))
        /\ \A i, j \in 0..(Len(result.sentences) - 1) :
              Selected(i) /\ ~Selected(j) =>
                 \/ FracGT(result.scores[i + 1], result.scores[j + 1])
                 \/ FracEQ(result.scores[i + 1], result.scores[j + 1]) /\ i < j

\* C9 witness: a selected and an unselected sentence with the same score
TieBreakingWitness ==
    /\ TextDone
    /\ \E i, j \in 0..(Len(result.sentences) - 1) :
          /\ Selected(i) /\ ~Selected(j)
          /\ FracEQ(result.scores[i + 1], result.scores[j + 1])

IsTerminator(c) == c \in {".", "!", "?"}

EndsWithOneTerminator(s) ==
    /\ s # <<>>
    /\ IsTerminator(s[Len(s)])
    /\ Len(s) >= 2 => ~IsTerminator(s[Len(s) - 1])

\* C10: the summary of a source with at least one sentence ends with
\* exactly one of . ! ?, for every ratio and min_sentences, in both
\* summarizers
TerminalPunctuation ==
    /\ TextDone /\ result.sentences # <<>> => EndsWithOneTerminator(result.summary)
    /\ ArticleDone /\ word_count = 0
                /\ processor_split_into_sentences(result.cleaned) # <<>> =>
          EndsWithOneTerminator(result.summary)

SplitDone ==
    op \in {"text_processor.split_into_sentences", "processor.split_into_sentences"}

\* C11: split_into_sentences returns no sentence of 3 or fewer words, so a
\* one-word source such as "Short." splits into the empty list
ShortFragmentFilter ==
    SplitDone =>
        \A k \in 1..Len(result.sentences) : Len(split(result.sentences[k])) > 3

\* C12: summarize of the empty string returns the empty string and does not
\* raise, in both summarizers
EmptyInput ==
    (TextDone \/ ArticleDone) /\ text = <<>> =>
        result.raised = "" /\ result.summary = <<>>

\* C13: summarize rejects a ratio outside (0, 1] and a non-positive word
\* count with an error, before any sentence is scored or selected
ConfigurationValidation ==
    (TextDone \/ ArticleDone) /\ text # <<>>
    /\ (ratio <= 0 \/ ratio > 10 \/ word_count < 0) =>
        /\ result.raised # ""
        /\ result.scores = <<>>
        /\ result.selected_indices = <<>>
        /\ result.summary = <<>>

\* C14: ArticleSummarizer.summarize raises ValueError when the method is
\* neither 'gensim' nor 'extractive'
UnknownMethodRaises ==
    ArticleDone /\ method \notin {"gensim", "extractive"} =>
        result.raised = "ValueError"

\* the number of whitespace-delimited words of a text
WordCount(s) ==
    Cardinality({i \in 1..Len(s) : ~IsSpace(s[i]) /\ (i = 1 \/ IsSpace(s[i - 1]))})

\* the number of tokens nltk.word_tokenize makes of one word: the word
\* without the punctuation marks at its two ends, and one token per mark
WordTokens(w) ==
    LET J == {j \in 1..Len(w) : w[j] \notin TokenPunctuation}
    IN  IF J = {} THEN Len(w) ELSE (SetMin(J) - 1) + 1 + (Len(w) - SetMax(J))

\* the number of tokens of a text
TokenCount(s) ==
    LET words == split(s)
    IN  Cardinality(UNION {{<<k, t>> : t \in 1..WordTokens(words[k])} :
                              k \in 1..Len(words)})

SummaryStatsOf(ow, sw) ==
    /\ result.stats.original_length = ow
    /\ result.stats.summary_length = sw
    /\ IF ow = 0 THEN result.stats.compression_ratio[1] = 0
       ELSE FracEQ(result.stats.compression_ratio, <<sw, ow>>)

\* C15: get_summary_stats returns the two word counts as original_length
\* and summary_length and their quotient summary / original as
\* compression_ratio, 0 when the original has no words; a 10-word original
\* and a 3-word summary give 3/10
CompressionRatio ==
    /\ op = "TextSummarizer.get_summary_stats" =>
          SummaryStatsOf(WordCount(text), WordCount(summary))
    /\ op = "ArticleSummarizer.get_summary_stats" /\ result.raised = "" =>
          SummaryStatsOf(TokenCount(text), TokenCount(summary))
    /\ op \in {"TextSummarizer.get_summary_stats",
               "ArticleSummarizer.get_summary_stats"}
       /\ result.raised = "" /\ text = TenWords /\ summary = ThreeWords =>
          FracEQ(result.stats.compression_ratio, <<3, 10>>)

\* C15 witness: the 10-word original with the 3-word summary
CompressionRatioWitness ==
    /\ op = "TextSummarizer.get_summary_stats"
    /\ text = TenWords
    /\ summary = ThreeWords
    /\ result.stats.original_length = 10
    /\ result.stats.summary_length = 3

TextStatsOf(sentences) ==
    LET st == result.stats
    IN  /\ st.num_sentences = Len(sentences)
        /\ st.reading_time = Max(1, NearestInteger(st.num_words, 200))
        /\ IF sentences = <<>> THEN st.avg_sentence_length[1] = 0
           ELSE FracEQ(st.avg_sentence_length, <<st.num_words, Len(sentences)>>)

\* C16: get_text_stats returns reading_time = max(1, round(word_count / 200))
\* and avg_sentence_length = word_count / sentence_count, 0 without
\* sentences, word_count being the word count it returns and sentence_count
\* the length of split_into_sentences(text)
TextStats ==
    /\ op = "text_processor.get_text_stats" =>
          /\ result.stats.num_words = WordCount(text)
          /\ TextStatsOf(text_processor_split_into_sentences(text))
    /\ op = "processor.get_text_stats" /\ result.raised = "" =>
          /\ result.stats.num_words = TokenCount(text)
          /\ TextStatsOf(processor_split_into_sentences(text))

KeywordsDone ==
    /\ op \in {"text_processor.extract_keywords", "processor.extract_keywords"}
    /\ result.raised = ""

\* the tokens extract_keywords counts, before its filter
KeywordTokens ==
    IF op = "text_processor.extract_keywords" THEN split(lower(text))
    ELSE word_tokenize(lower(text))

KeywordStopwords ==
    IF op = "text_processor.extract_keywords" THEN TextProcessorStopwords
    ELSE NltkStopwords

IsLowerAlpha(w) == w # <<>> /\ \A k \in 1..Len(w) : w[k] \in Letters

Eligible(w) == IsLowerAlpha(w) /\ w \notin KeywordStopwords

Frequency(w) == CountOf(KeywordTokens, w)

FirstOccurrence(w) == SetMin({k \in 1..Len(KeywordTokens) : KeywordTokens[k] = w})

\* C17: extract_keywords(text, n) returns at most n distinct tokens, each
\* alphabetic, lower-cased and no stopword, by descending frequency and,
\* among equal frequencies, by first occurrence in the text; a token is left
\* out only when n tokens at least as frequent are returned
KeywordOrder ==
    KeywordsDone =>
        LET kw == result.keywords
        IN  /\ Len(kw) <= num_keywords
            /\ \A i \in 1..Len(kw) : Eligible(kw[i]) /\ Frequency(kw[i]) > 0
            /\ \A i, j \in 1..Len(kw) :
                  i < j =>
                     \/ Frequency(kw[i]) > Frequency(kw[j])
                     \/ /\ Frequency(kw[i]) = Frequency(kw[j])
                        /\ FirstOccurrence(kw[i]) < FirstOccurrence(kw[j])
            /\ \A t \in 1..Len(KeywordTokens) :
                  LET w == KeywordTokens[t]
                  IN  Eligible(w) /\ (\A i \in 1..Len(kw) : kw[i] # w) =>
                         /\ Len(kw) = num_keywords
                         /\ \A i \in 1..Len(kw) : Frequency(kw[i]) >= Frequency(w)

\* C17 witness: two keywords of the same frequency, returned in the order
\* of their first occurrence, which is not the alphabetical one
KeywordOrderWitness ==
    /\ op = "text_processor.extract_keywords"
    /\ result.keywords = << <<"c">>, <<"b">> >>
    /\ Frequency(<<"c">>) = Frequency(<<"b">>)

CleanDone == op \in {"text_processor.clean", "processor.clean"}

\* C18: the output of clean holds no '<', '>' or '&' and no upper-case
\* letter, whatever the input, in both variants
NoMarkup ==
    CleanDone =>
        \A i \in 1..Len(result.cleaned) :
            result.cleaned[i] \notin {"<", ">", "&"} \cup UpperLetters

\* C18 witness: an input with an unclosed tag and an upper-case letter that
\* cleans to a non-empty text
NoMarkupWitness ==
    /\ CleanDone
    /\ \E i \in 1..Len(text) : text[i] = "<"
    /\ \E i \in 1..Len(text) : text[i] \in UpperLetters
    /\ \A i \in 1..Len(text) : text[i] # ">"
    /\ result.cleaned # <<>>

\* two paragraphs of letters with a blank line between them, and no markup
TwoParagraphs(s) ==
    /\ \A i \in 1..Len(s) : IsWordChar(s[i]) \/ IsSpace(s[i])
    /\ \E i \in 2..(Len(s) - 2) :
          /\ s[i] = "\n" /\ s[i + 1] = "\n"
          /\ \E j \in 1..(i - 1) : IsWordChar(s[j])
          /\ \E j \in (i + 2)..Len(s) : IsWordChar(s[j])

\* a single blank line between two characters that are not whitespace
HasParagraphBreak(s) ==
    \E i \in 2..(Len(s) - 2) :
        /\ s[i] = "\n" /\ s[i + 1] = "\n"
        /\ ~IsSpace(s[i - 1]) /\ ~IsSpace(s[i + 2])

\* C19: clean keeps two non-empty paragraphs that a blank line separates
\* apart by exactly one blank line (processor.py)
ParagraphPreservation ==
    op = "processor.clean" /\ TwoParagraphs(text) =>
        HasParagraphBreak(result.cleaned)

\* a word without the sentence terminators at its two ends
StripTerminators(w) ==
    LET J == {j \in 1..Len(w) : ~IsTerminator(w[j])}
    IN  IF J = {} THEN <<>> ELSE SubSeq(w, SetMin(J), SetMax(J))

IsNonEmpty(w) == w # <<>>

\* the words of a text in order, sentence terminators at their ends apart
CoreWords(s) ==
    LET words == split(s)
    IN  SelectSeq([k \in 1..Len(words) |-> StripTerminators(words[k])], IsNonEmpty)

\* C20: split_into_sentences returns non-empty sentences in the order of
\* the text, and no word of the text is divided between two sentences: the
\* words of the sentences, one sentence after the other, are the words of
\* the text
SentenceSegmentation ==
    SplitDone =>
        /\ \A k \in 1..Len(result.sentences) : strip(result.sentences[k]) # <<>>
        /\ CoreWords(join(<<" ">>, result.sentences)) = CoreWords(text)

\* what a call returns on an instance of its own, new from its constructor
OnNewInstance(call) ==
    CASE call.method = "summarize" ->
            TextSummarizer_summarize(call.text, call.ratio,
                                     call.min_sentences).summary
      [] call.method = "clean" -> text_processor_clean(call.text)
      [] call.method = "split_into_sentences" ->
            text_processor_split_into_sentences(call.text)
      [] call.method = "extract_keywords" ->
            text_processor_extract_keywords(call.text, call.num_keywords)
      [] call.method = "get_text_stats" -> text_processor_get_text_stats(call.text)

\* C21: whatever calls were made before on the shared instance, and however
\* the callers' calls interleave, a call returns what its arguments and the
\* fixed stopword set determine, equal calls return equal results, and the
\* stopword set is the one the constructor set
Statelessness ==
    /\ stopwords = TextProcessorStopwords
    /\ \A i \in 1..Len(history) :
          history[i].returns = OnNewInstance(history[i].call)
    /\ \A i, j \in 1..Len(history) :
          history[i].call = history[j].call =>
              history[i].returns = history[j].returns

\* C21 witness: two callers made the same extract_keywords call, both got
\* the same keyword, and a third call is under way
StatelessnessWitness ==
    /\ Len(history) = 2
    /\ history[1].call = history[2].call
    /\ history[1].caller # history[2].caller
    /\ history[1].call.method = "extract_keywords"
    /\ history[1].returns # <<>>
    /\ history[2].returns = history[1].returns
    /\ \E c \in Callers : pending[c] # Idle

\* a scrape call is under way or has just ended
InScrape ==
    scraper.pc \in {"scrape: validate", "scrape: for", "scrape: delay",
                    "scrape: fetch", "scrape: returned", "scrape: raised"}

\* the fetch attempts of the scrape call, as positions of its trace
Fetches == {p \in 1..Len(scraper.trace) : scraper.trace[p] # "delay"}

\* C22: for a valid URL and max_retries >= 1, scrape makes at most
\* max_retries fetch attempts, each right after a delay; a successful
\* attempt is the last one, and scrape returns its Article; scrape raises
\* only after max_retries failed attempts, the exception of the last one;
\* an invalid URL raises ValueError before any delay or attempt
RetryProtocol ==
    /\ InScrape /\ validators_url(scraper.url) /\ scraper.max_retries >= 1 =>
          /\ Cardinality(Fetches) <= scraper.max_retries
          /\ \A p \in Fetches : p > 1 /\ scraper.trace[p - 1] = "delay"
          /\ \A p \in Fetches :
                scraper.trace[p] = "fetched" =>
                    /\ p = Len(scraper.trace)
                    /\ scraper.pc = "scrape: returned"
          /\ scraper.pc = "scrape: returned" =>
                /\ scraper.trace # <<>>
                /\ scraper.trace[Len(scraper.trace)] = "fetched"
                /\ scraper.outcome = "Article"
                /\ scraper.article = [url |-> scraper.url,
                                      attempt |-> Cardinality(Fetches)]
          /\ scraper.pc = "scrape: raised" =>
                /\ Cardinality(Fetches) = scraper.max_retries
                /\ \A p \in Fetches : scraper.trace[p] = "failed"
                /\ scraper.outcome = "Exception"
                /\ scraper.raised_in = scraper.max_retries
    /\ InScrape /\ ~validators_url(scraper.url) =>
          /\ scraper.pc \in {"scrape: validate", "scrape: raised"}
          /\ scraper.trace = <<>>
          /\ scraper.pc = "scrape: raised" => scraper.outcome = "ValueError"

\* C22 witness: with max_retries = 3 the second attempt succeeds and its
\* Article is returned
RetryProtocolWitness ==
    /\ scraper.max_retries = 3
    /\ scraper.pc = "scrape: returned"
    /\ scraper.trace = <<"delay", "failed", "delay", "fetched">>
    /\ scraper.article.attempt = 2

\* the results of the scrape calls that returned an Article
IsSuccess(r) == r.outcome = "Article"

\* C29: bulk_scrape does not raise, it scrapes every URL of the list in
\* order, and the list it returns holds the Articles of the URLs whose scrape
\* succeeded, in input order, and nothing else
BulkScrapeIsolation ==
    /\ scraper.call = "bulk_scrape" /\ scraper.pc = "bulk_scrape: returned" =>
          LET succeeded == SelectSeq(scraper.results, IsSuccess)
          IN  /\ Len(scraper.results) = Len(scraper.urls)
              /\ \A i \in 1..Len(scraper.urls) :
                    scraper.results[i].url = scraper.urls[i]
              /\ scraper.articles =
                    [k \in 1..Len(succeeded) |-> succeeded[k].article]
    /\ scraper.call = "bulk_scrape" /\ scraper.pc = "bulk_scrape: for" =>
          \A k \in 1..Len(scraper.articles) : scraper.articles[k] # NoArticle

\* C30: for a valid URL and any max_retries, a scrape that returns returns
\* an Article
ScrapeReturnsArticle ==
    validators_url(scraper.url) /\ scraper.pc = "scrape: returned" =>
        /\ scraper.outcome = "Article"
        /\ scraper.article # NoArticle

\* every save_article call so far was made with format='all'
AllFormats ==
    \A k \in 1..Len(storage.calls) : storage.calls[k].format = "all"

UrlsOf(rows) == {rows[k].url : k \in 1..Len(rows)}

\* the last call that saved the url
LastSave(url) ==
    storage.calls[SetMax({k \in 1..Len(storage.calls) :
                             storage.calls[k].article.url = url})]

\* some url was saved by two of the calls
SavedTwice ==
    \E i, j \in 1..Len(storage.calls) :
        i # j /\ storage.calls[i].article.url = storage.calls[j].article.url

\* C28: after save_article calls that all have format='all', the JSON file,
\* the CSV file and the SQLite table hold the same urls; the table has one
\* row per url, with the content and summary of the last save of the url;
\* the two files hold one record per call, as many as the table has rows
\* exactly when no url was saved twice
StorageConsistency ==
    AllFormats =>
        /\ UrlsOf(storage.json) = UrlsOf(storage.sqlite)
        /\ UrlsOf(storage.csv) = UrlsOf(storage.sqlite)
        /\ \A i, j \in 1..Len(storage.sqlite) :
              storage.sqlite[i].url = storage.sqlite[j].url => i = j
        /\ \A i \in 1..Len(storage.sqlite) :
              LET row == storage.sqlite[i]
              IN  /\ row.content = LastSave(row.url).article.content
                  /\ row.summary = LastSave(row.url).summary
        /\ Len(storage.json) = Len(storage.calls)
        /\ Len(storage.csv) = Len(storage.calls)
        /\ Len(storage.json) = Len(storage.sqlite) <=> ~SavedTwice

\* C28 witness: one url saved twice with format='all', with another content
\* and another summary the second time
StorageConsistencyWitness ==
    /\ AllFormats
    /\ Len(storage.calls) = 2
    /\ SavedTwice
    /\ storage.calls[1].article.content # storage.calls[2].article.content
    /\ storage.calls[1].summary = "a summary"
    /\ storage.calls[2].summary = None
    /\ Len(storage.sqlite) = 1
    /\ Len(storage.json) = 2

\* the summarize calls that scored their sentences
TextScored == TextDone /\ result.sentences # <<>>

ExtractiveScored ==
    /\ ArticleDone /\ method = "extractive"
    /\ ~result.fallback /\ result.sentences # <<>>

GensimScored ==
    /\ ArticleDone /\ method = "gensim"
    /\ ~result.fallback /\ result.sentences # <<>>

\* what the score of sentence k of TextSummarizer holds beside its word
\* frequency and length terms, in tenths
TextPositionPart(k) ==
    LET all_words == split(lower(join(<<" ">>, result.sentences)))
        words == split(lower(result.sentences[k]))
        counts == {<<j, c>> \in (1..Len(words)) \X (1..Len(all_words)) :
                      all_words[c] = words[j]}
    IN  (result.scores[k][1] - 5 * Cardinality(counts)) \div Len(words)
            - (IF 10 <= Len(words) /\ Len(words) <= 30 THEN 2 ELSE 0)

\* what the score of sentence k of ArticleSummarizer's extractive method
\* holds beside its length and keyword terms, in tenths
ExtractivePositionPart(k) ==
    LET words == Len(split(result.sentences[k]))
    IN  result.scores[k][1]
            - (IF 5 <= words /\ words <= 25 THEN 3 ELSE 0)
            - Len(processor_extract_keywords(result.sentences[k], 10))

IsEarly(i, n) == 5 * i < n
IsLate(i, n) == 5 * i > 4 * n

\* C23: a sentence gets the early-position boost exactly when its index i
\* is below 0.2 * total and the late-position boost exactly when i is above
\* 0.8 * total, never both, and the early boost (0.3) is at least the late
\* one (0.2 in TextSummarizer, 0.3 in ArticleSummarizer)
PositionFeature ==
    /\ TextScored =>
          \A k \in 1..Len(result.sentences) :
              LET n == Len(result.sentences)
                  p == TextPositionPart(k)
              IN  /\ p \in {0, 2, 3}
                  /\ p = 3 <=> IsEarly(k - 1, n)
                  /\ p = 2 <=> IsLate(k - 1, n)
                  /\ ~(IsEarly(k - 1, n) /\ IsLate(k - 1, n))
    /\ ExtractiveScored =>
          \A k \in 1..Len(result.sentences) :
              LET n == Len(result.sentences)
                  p == ExtractivePositionPart(k)
              IN  /\ p \in {0, 3}
                  /\ p = 3 <=> (IsEarly(k - 1, n) \/ IsLate(k - 1, n))

\* C23 witness: ten scored sentences, so that indices 0 and 1 are early,
\* 9 is late and 2 and 8 lie on the two thresholds
PositionFeatureWitness ==
    /\ TextScored
    /\ Len(result.sentences) = 10
    /\ TextPositionPart(2) = 3 /\ TextPositionPart(3) = 0
    /\ TextPositionPart(9) = 0 /\ TextPositionPart(10) = 2

\* C24: the scorer gives 0 to every sentence of at most one word and no
\* score is negative
DegenerateScoring ==
    TextScored \/ ExtractiveScored \/ GensimScored =>
        \A k \in 1..Len(result.scores) :
            /\ result.scores[k][1] >= 0
            /\ Len(split(result.sentences[k])) <= 1 => result.scores[k][1] = 0

\* C25: splitting the summary of TextSummarizer.summarize gives back the
\* selected source sentences, unaltered, in their order, num_sentences of
\* them
LosslessReassembly ==
    TextDone =>
        LET parts == text_processor_split_into_sentences(result.summary)
        IN  /\ Len(parts) = result.num_sentences
            /\ Len(parts) = NumSelected
            /\ \A j \in 1..Len(parts) :
                  parts[j] = result.sentences[result.selected_indices[j] + 1]

\* C25 witness: a summary of two or more sentences, not all of the source,
\* that are not neighbours in the source
LosslessReassemblyWitness ==
    /\ TextDone
    /\ NumSelected >= 2
    /\ NumSelected < Len(result.sentences)
    /\ \E j \in 1..(NumSelected - 1) :
          result.selected_indices[j + 1] > result.selected_indices[j] + 1

\* C26: the summary of a cleaned text is never longer than the cleaned
\* text: summary_length <= original_length and the compression ratio lies
\* between 0 and 1
SummaryNotLonger ==
    op = "ArticleAnalyzer.process_article" =>
        /\ result.stats.summary_length <= result.stats.original_length
        /\ FracGE(result.stats.compression_ratio, <<0, 1>>)
        /\ FracGE(<<1, 1>>, result.stats.compression_ratio)

\* C27: the gensim method returns the sentences at the num_sentences
\* top-ranked positions, each position once, also when sentences repeat
GensimTopPositions ==
    GensimScored =>
        /\ result.selected_indices = sorted(RankingOrder)
        /\ StrictlyIncreasing(result.selected_indices)
        /\ result.summary = join(<<" ">>, Pick(result.sentences, sorted(RankingOrder)))

====
